---- MODULE Spec2Model ----
(***************************************************************************)
(* crypto_price_tracker.py: header normalisation, schema validation,       *)
(* price enrichment and per-coin aggregation of a sheet of purchases.      *)
(*                                                                         *)
(* Text is a sequence of one-character strings ("ZW" stands for a          *)
(* zero-width character), so that _norm, strip and lower are computed      *)
(* character by character.  Numbers are exact decimals held as integers:   *)
(* quantities in thousandths of a coin, money in cents, products of the    *)
(* two in 1e-5 dollars, percentages in hundredths of a percent.            *)
(***************************************************************************)
EXTENDS Integers, Sequences, FiniteSets, TLC

VARIABLES
    tbl,          \* headers run: the table handed to / returned by normalize_headers
    hist,         \* headers run: the tables normalize_headers was given, oldest first
    hpc,          \* headers run: "idle" | "ready" | "raised"
    schema,       \* headers run: the last result of validate_schema
    df,           \* enrich run: the input records
    hasFees,      \* enrich run: whether the input has a FeesUSD column
    offline,      \* enrich run: the offline argument
    pc,           \* enrich run: position in enrich / summarize
    idx,          \* enrich run: the record the loop is at
    out,          \* enrich run: the enriched records
    price_cache,  \* enrich run: identifier -> PriceResult
    events,       \* enrich run: live lookups and pacing delays, in order
    divisions,    \* enrich run: the divisors of every P/L percent division evaluated
    summary       \* enrich run: the rows returned by summarize

vars == << tbl, hist, hpc, schema, df, hasFees, offline, pc, idx, out,
           price_cache, events, divisions, summary >>

(* ------------------------------ bounds -------------------------------- *)
MaxCols == 4
MaxRows == 2

(* ------------------------------ values -------------------------------- *)
NaN == [k |-> "nan", v |-> 0]
NA == [k |-> "na", v |-> 0]
Num(n) == [k |-> "num", v |-> n]
\* a text cell that parses as the number n, and one that does not parse
NumStr(n) == [k |-> "str", v |-> n]
Text == [k |-> "text", v |-> 0]

IsNum(x) == x.k = "num"
IsNull(x) == x.k \in {"nan", "na"}

\* pd.to_numeric(..., errors="coerce") on one cell
to_numeric(x) ==
    IF x.k \in {"num", "str"} THEN Num(x.v) ELSE NaN

\* Series.fillna(0) on one cell
fillna0(x) == IF IsNull(x) THEN Num(0) ELSE x

\* round(x, 2) of n / d, d > 0, to the nearest integer, ties to even
RoundDiv(n, d) ==
    LET q == n \div d
        r == n % d
    IN  IF 2 * r < d THEN q
        ELSE IF 2 * r > d THEN q + 1
        ELSE IF q % 2 = 0 THEN q ELSE q + 1

(* ------------------------------- text --------------------------------- *)
Upper ==
    << "A", "B", "C", "D", "E", "F", "G", "H", "I", "J", "K", "L", "M",
       "N", "O", "P", "Q", "R", "S", "T", "U", "V", "W", "X", "Y", "Z" >>
Lowercase ==
    << "a", "b", "c", "d", "e", "f", "g", "h", "i", "j", "k", "l", "m",
       "n", "o", "p", "q", "r", "s", "t", "u", "v", "w", "x", "y", "z" >>

\* the characters of the model in code-point order
CodePoints ==
    << " ", "(", ")", ",", "-", ":" >> \o Upper \o << "_" >> \o Lowercase \o << "ZW" >>

IndexOf(seq, x) == CHOOSE i \in DOMAIN seq : seq[i] = x

CodePoint(c) == IndexOf(CodePoints, c)

LowerChar(c) ==
    IF \E i \in DOMAIN Upper : Upper[i] = c THEN Lowercase[IndexOf(Upper, c)] ELSE c

\* str.lower()
lower(s) == [i \in DOMAIN s |-> LowerChar(s[i])]

RECURSIVE lstrip(_)
lstrip(s) == IF s # << >> /\ Head(s) = " " THEN lstrip(Tail(s)) ELSE s

RECURSIVE rstrip(_)
rstrip(s) ==
    IF s # << >> /\ s[Len(s)] = " " THEN rstrip(SubSeq(s, 1, Len(s) - 1)) ELSE s

\* str.strip()
strip(s) == rstrip(lstrip(s))

\* re.sub("[class]+", rep, s): every maximal run of characters of class
\* becomes one rep (rep = "" deletes the run)
RECURSIVE re_sub(_, _, _)
re_sub(class, rep, s) ==
    IF s = << >> THEN << >>
    ELSE IF Head(s) \in class
         THEN IF Len(s) > 1 /\ s[2] \in class
              THEN re_sub(class, rep, Tail(s))
              ELSE rep \o re_sub(class, rep, Tail(s))
         ELSE << Head(s) >> \o re_sub(class, rep, Tail(s))

\* lexicographic order of two texts by code point (Python's str <)
RECURSIVE StrLess(_, _)
StrLess(a, b) ==
    IF b = << >> THEN FALSE
    ELSE IF a = << >> THEN TRUE
    ELSE IF Head(a) # Head(b) THEN CodePoint(Head(a)) < CodePoint(Head(b))
    ELSE StrLess(Tail(a), Tail(b))

(* ------------------------ header normalisation ------------------------ *)
\* _norm without the lowercasing
norm_keep_case(s) ==
    LET s1 == re_sub({"ZW"}, << >>, s)
        s2 == re_sub({"_", "-"}, << " " >>, s1)
        s3 == re_sub({" "}, << " " >>, s2)
    IN  strip(s3)

\* _norm(s)
norm(s) ==
    LET s1 == re_sub({"ZW"}, << >>, s)
        s2 == re_sub({"_", "-"}, << " " >>, s1)
        s3 == re_sub({" "}, << " " >>, s2)
    IN  lower(strip(s3))

alias ==
    << [canon |-> <<"d", "a", "t", "e", " ", "o", "f", " ", "p", "u", "r", "c", "h", "a", "s", "e">>,
         alts |-> {<<"d", "a", "t", "e">>,
                   <<"p", "u", "r", "c", "h", "a", "s", "e", " ", "d", "a", "t", "e">>,
                   <<"d", "a", "t", "e", " ", "p", "u", "r", "c", "h", "a", "s", "e", "d">>}],
        [canon |-> <<"c", "o", "i", "n", " ", "t", "y", "p", "e">>,
         alts |-> {<<"c", "o", "i", "n">>,
                   <<"a", "s", "s", "e", "t">>,
                   <<"s", "y", "m", "b", "o", "l">>,
                   <<"t", "i", "c", "k", "e", "r">>}],
        [canon |-> <<"q", "u", "a", "n", "t", "i", "t", "y">>,
         alts |-> {<<"q", "t", "y">>,
                   <<"a", "m", "o", "u", "n", "t">>,
                   <<"u", "n", "i", "t", "s">>}],
        [canon |-> <<"c", "o", "s", "t", " ", "p", "e", "r", " ", "c", "o", "i", "n", " ", "(", "u", "s", "d", ")">>,
         alts |-> {<<"c", "o", "s", "t", " ", "p", "e", "r", " ", "c", "o", "i", "n">>,
                   <<"p", "r", "i", "c", "e">>,
                   <<"u", "n", "i", "t", " ", "p", "r", "i", "c", "e">>,
                   <<"p", "p", "e", "r", "c", "o", "i", "n">>,
                   <<"p", "r", "i", "c", "e", " ", "u", "s", "d">>,
                   <<"c", "o", "s", "t", "p", "e", "r", "c", "o", "i", "n", "u", "s", "d">>}],
        [canon |-> <<"f", "e", "e", "s", "u", "s", "d">>,
         alts |-> {<<"f", "e", "e", "s">>,
                   <<"f", "e", "e">>,
                   <<"f", "e", "e", " ", "u", "s", "d">>,
                   <<"f", "e", "e", "s", " ", "(", "u", "s", "d", ")">>}],
        [canon |-> <<"e", "x", "c", "h", "a", "n", "g", "e">>,
         alts |-> {<<"e", "x", "c", "h", "a", "n", "g", "e">>,
                   <<"p", "l", "a", "t", "f", "o", "r", "m">>,
                   <<"b", "r", "o", "k", "e", "r">>}],
        [canon |-> <<"t", "x", "i", "d">>,
         alts |-> {<<"t", "x", "i", "d">>,
                   <<"t", "x", " ", "i", "d">>,
                   <<"t", "r", "a", "n", "s", "a", "c", "t", "i", "o", "n", " ", "i", "d">>,
                   <<"h", "a", "s", "h">>}],
        [canon |-> <<"n", "o", "t", "e", "s">>,
         alts |-> {<<"n", "o", "t", "e", "s">>,
                   <<"m", "e", "m", "o">>,
                   <<"c", "o", "m", "m", "e", "n", "t">>}],
        [canon |-> <<"t", "o", "t", "a", "l", "c", "o", "s", "t", "u", "s", "d">>,
         alts |-> {<<"t", "o", "t", "a", "l", " ", "c", "o", "s", "t", " ", "u", "s", "d">>,
                   <<"t", "o", "t", "a", "l", " ", "c", "o", "s", "t">>}] >>

required_working ==
    << <<"d", "a", "t", "e", " ", "o", "f", " ", "p", "u", "r", "c", "h", "a", "s", "e">>,
       <<"c", "o", "i", "n", " ", "t", "y", "p", "e">>,
       <<"q", "u", "a", "n", "t", "i", "t", "y">>,
       <<"c", "o", "s", "t", " ", "p", "e", "r", " ", "c", "o", "i", "n", " ", "(", "u", "s", "d", ")">>,
       <<"f", "e", "e", "s", "u", "s", "d">>,
       <<"e", "x", "c", "h", "a", "n", "g", "e">>,
       <<"t", "x", "i", "d">>,
       <<"n", "o", "t", "e", "s">> >>

display_names ==
    << [working |-> <<"d", "a", "t", "e", " ", "o", "f", " ", "p", "u", "r", "c", "h", "a", "s", "e">>,
        display |-> <<"D", "a", "t", "e", " ", "o", "f", " ", "P", "u", "r", "c", "h", "a", "s", "e">>],
       [working |-> <<"c", "o", "i", "n", " ", "t", "y", "p", "e">>,
        display |-> <<"C", "o", "i", "n", " ", "T", "y", "p", "e">>],
       [working |-> <<"q", "u", "a", "n", "t", "i", "t", "y">>,
        display |-> <<"Q", "u", "a", "n", "t", "i", "t", "y">>],
       [working |-> <<"c", "o", "s", "t", " ", "p", "e", "r", " ", "c", "o", "i", "n", " ", "(", "u", "s", "d", ")">>,
        display |-> <<"C", "o", "s", "t", " ", "p", "e", "r", " ", "C", "o", "i", "n", " ", "(", "U", "S", "D", ")">>],
       [working |-> <<"f", "e", "e", "s", "u", "s", "d">>,
        display |-> <<"F", "e", "e", "s", "U", "S", "D">>],
       [working |-> <<"e", "x", "c", "h", "a", "n", "g", "e">>,
        display |-> <<"E", "x", "c", "h", "a", "n", "g", "e">>],
       [working |-> <<"t", "x", "i", "d">>,
        display |-> <<"T", "x", "I", "D">>],
       [working |-> <<"n", "o", "t", "e", "s">>,
        display |-> <<"N", "o", "t", "e", "s">>],
       [working |-> <<"t", "o", "t", "a", "l", "c", "o", "s", "t", "u", "s", "d">>,
        display |-> <<"T", "o", "t", "a", "l", "C", "o", "s", "t", "U", "S", "D">>] >>

REQUIRED_COLS_DISPLAY ==
    << <<"D", "a", "t", "e", " ", "o", "f", " ", "P", "u", "r", "c", "h", "a", "s", "e">>,
       <<"C", "o", "i", "n", " ", "T", "y", "p", "e">>,
       <<"Q", "u", "a", "n", "t", "i", "t", "y">>,
       <<"C", "o", "s", "t", " ", "p", "e", "r", " ", "C", "o", "i", "n", " ", "(", "U", "S", "D", ")">> >>


Range(s) == {s[i] : i \in DOMAIN s}

\* step 1: df.columns = [_norm(c) for c in df.columns]
step1_norm(t) == [t EXCEPT !.cols = [i \in DOMAIN t.cols |-> norm(t.cols[i])]]

\* step 2: the rename maps the alias loop can build.  alts is a Python set,
\* so which of several present aliases of one field is met first (and wins,
\* by the break) is any of them.
RenameMaps(present) ==
    LET need == {i \in DOMAIN alias :
                    alias[i].canon \notin present /\ alias[i].alts \cap present # {}}
        found == UNION {alias[i].alts \cap present : i \in need}
    IN  {rm \in [need -> found] : \A i \in need : rm[i] \in alias[i].alts}

step2_rename(t, rm) ==
    [t EXCEPT !.cols =
        [j \in DOMAIN t.cols |->
            IF \E i \in DOMAIN rm : rm[i] = t.cols[j]
            THEN alias[CHOOSE i \in DOMAIN rm : rm[i] = t.cols[j]].canon
            ELSE t.cols[j]]]

\* step 3: every absent working column is created, holding np.nan
step3_required(t) ==
    LET missing == SelectSeq(required_working, LAMBDA c : c \notin Range(t.cols))
    IN  [cols |-> t.cols \o missing,
         cells |-> t.cells \o [i \in DOMAIN missing |-> NaN]]

numeric_cols == {required_working[3], required_working[4], required_working[5]}

totalcostusd == display_names[9].working

\* df[c] for a label held by exactly one column
Cell(t, c) == t.cells[IndexOf(t.cols, c)]

\* quantity * cost per coin + fees on one row, not-a-number if any operand is
total_cost(q, c, f) ==
    IF IsNum(q) /\ IsNum(c) /\ IsNum(f) THEN Num(q.v * c.v + f.v * 1000) ELSE NaN

\* step 4: df[c] of a label held by two columns is a DataFrame, and
\* pd.to_numeric raises TypeError on it
step4_raises(t) ==
    \E c \in numeric_cols : Cardinality({i \in DOMAIN t.cols : t.cols[i] = c}) > 1

step4_numeric(t) ==
    LET coerced == [t EXCEPT !.cells =
                       [i \in DOMAIN t.cells |->
                           IF t.cols[i] \in numeric_cols
                           THEN to_numeric(t.cells[i]) ELSE t.cells[i]]]
    IN  IF totalcostusd \in Range(coerced.cols) THEN coerced
        ELSE [cols |-> Append(coerced.cols, totalcostusd),
              cells |-> Append(coerced.cells,
                               total_cost(Cell(coerced, required_working[3]),
                                          Cell(coerced, required_working[4]),
                                          Cell(coerced, required_working[5])))]

\* step 5 keeping the renamed columns only: every other label dropped
step5_display_dropping(t) ==
    LET keep == SelectSeq([j \in DOMAIN t.cols |-> j],
                          LAMBDA j : \E i \in DOMAIN display_names :
                                        display_names[i].working = t.cols[j])
    IN  [cols |-> [n \in DOMAIN keep |->
                      display_names[CHOOSE i \in DOMAIN display_names :
                          display_names[i].working = t.cols[keep[n]]].display],
         cells |-> [n \in DOMAIN keep |-> t.cells[keep[n]]]]

\* step 5: working names -> display names; every other label is left as it is
step5_display(t) ==
    [t EXCEPT !.cols =
        [j \in DOMAIN t.cols |->
            IF \E i \in DOMAIN display_names : display_names[i].working = t.cols[j]
            THEN display_names[CHOOSE i \in DOMAIN display_names :
                                   display_names[i].working = t.cols[j]].display
            ELSE t.cols[j]]]

\* normalize_headers(df) when the alias loop builds rename map rm
normalize_headers(t, rm) ==
    LET t3 == step3_required(step2_rename(step1_norm(t), rm))
    IN  IF step4_raises(t3) THEN [raised |-> TRUE, tbl |-> t]
        ELSE [raised |-> FALSE, tbl |-> step5_display(step4_numeric(t3))]

(* -------------------------- schema validation ------------------------- *)
None == << "None" >>

RECURSIVE join(_, _)
join(sep, names) ==
    IF names = << >> THEN << >>
    ELSE IF Len(names) = 1 THEN names[1]
    ELSE names[1] \o sep \o join(sep, Tail(names))

\* only the first absent column reported
missing_required_first(t) ==
    LET missing == SelectSeq(REQUIRED_COLS_DISPLAY, LAMBDA c : c \notin Range(t.cols))
    IN  IF missing = << >> THEN << >> ELSE << missing[1] >>

\* line 203: the required columns the table lacks, in the order of the list
missing_required(t) ==
    SelectSeq(REQUIRED_COLS_DISPLAY, LAMBDA c : c \notin Range(t.cols))

validate_schema(t) ==
    LET missing == missing_required(t)
    IN  IF missing # << >>
        THEN [ok |-> FALSE,
              err |-> <<"M", "i", "s", "s", "i", "n", "g", " ", "r", "e", "q", "u", "i", "r", "e", "d", " ", "c", "o", "l", "u", "m", "n", "s", ":", " ">> \o join(<<",", " ">>, missing)]
        ELSE [ok |-> TRUE, err |-> None]

(* ----------------------------- headers run ---------------------------- *)
RawLabels ==
    << <<"D", "a", "t", "e", " ", "o", "f", " ", "P", "u", "r", "c", "h", "a", "s", "e">>,
       <<"C", "o", "i", "n", " ", "T", "y", "p", "e">>,
       <<"Q", "u", "a", "n", "t", "i", "t", "y">>,
       <<"C", "o", "s", "t", " ", "p", "e", "r", " ", "C", "o", "i", "n", " ", "(", "U", "S", "D", ")">>,
       <<"c", "o", "i", "n">>,
       <<"A", "s", "s", "e", "t">>,
       <<"Q", "T", "Y">>,
       <<"q", "t", "y">>,
       <<"P", "r", "i", "ZW", "c", "e">>,
       <<" ", "F", "e", "e", "s", " ">>,
       <<"t", "o", "t", "a", "l", "_", "-", "c", "o", "s", "t">>,
       <<"W", "a", "l", "l", "e", "t">> >>

CellVals == << Num(2000), NumStr(500), Text >>

\* the raw tables: up to MaxCols of the raw labels in the order of RawLabels,
\* and one row of cells
RawTables ==
    LET picks == {S \in SUBSET DOMAIN RawLabels : Cardinality(S) <= MaxCols}
        Asc(S) == [i \in 1..Cardinality(S) |->
                      CHOOSE x \in S : Cardinality({y \in S : y < x}) = i - 1]
    IN  {[cols |-> [i \in DOMAIN o |-> RawLabels[o[i]]],
          cells |-> [i \in DOMAIN o |-> CellVals[((i + p) % 3) + 1]]] :
            o \in {Asc(S) : S \in picks}, p \in 0..2}

(* ------------------------------ price fetch --------------------------- *)
COIN_NAME_TO_ID ==
    << [name |-> <<"b", "i", "t", "c", "o", "i", "n">>, id |-> "bitcoin"],
       [name |-> <<"b", "t", "c">>, id |-> "bitcoin"],
       [name |-> <<"e", "t", "h", "e", "r", "e", "u", "m">>, id |-> "ethereum"],
       [name |-> <<"e", "t", "h">>, id |-> "ethereum"],
       [name |-> <<"c", "a", "r", "d", "a", "n", "o">>, id |-> "cardano"],
       [name |-> <<"a", "d", "a">>, id |-> "cardano"],
       [name |-> <<"s", "o", "l", "a", "n", "a">>, id |-> "solana"],
       [name |-> <<"s", "o", "l">>, id |-> "solana"],
       [name |-> <<"d", "o", "g", "e", "c", "o", "i", "n">>, id |-> "dogecoin"],
       [name |-> <<"d", "o", "g", "e">>, id |-> "dogecoin"],
       [name |-> <<"h", "e", "d", "e", "r", "a">>, id |-> "hedera-hashgraph"],
       [name |-> <<"h", "b", "a", "r">>, id |-> "hedera-hashgraph"],
       [name |-> <<"r", "i", "p", "p", "l", "e">>, id |-> "ripple"],
       [name |-> <<"x", "r", "p">>, id |-> "ripple"],
       [name |-> <<"s", "t", "e", "l", "l", "a", "r">>, id |-> "stellar"],
       [name |-> <<"x", "l", "m">>, id |-> "stellar"] >>

max_retries == 3

NoPrice == [k |-> "none", v |-> 0]

PriceResult(usd, error) == [usd |-> usd, error |-> error]

\* what one session.get can bring: a price, HTTP 429, a body without the
\* price, or an exception (network error, HTTP error status, bad JSON)
Prices == {150, 30000}

Responses ==
    {[kind |-> "ok", usd |-> p] : p \in Prices} \cup
    {[kind |-> k, usd |-> 0] : k \in {"429", "malformed", "exc"}}

\* the answers one call of get_current_price can consume: every request
\* but the last is answered by a 429 or an exception (and retried), and the
\* call ends with the first other answer or with request max_retries
Retried == {r \in Responses : r.kind \in {"429", "exc"}}

Exchanges ==
    UNION {{s \in [1..n -> Responses] :
                /\ \A i \in 1..(n - 1) : s[i] \in Retried
                /\ n < max_retries => s[n] \notin Retried} : n \in 1..max_retries}

RECURSIVE attempt(_, _)
attempt(n, resps) ==
    LET resp == resps[n]
    IN  CASE resp.kind = "429" ->
                IF n = max_retries THEN PriceResult(NoPrice, "Rate limited (429)")
                ELSE attempt(n + 1, resps)
          [] resp.kind = "ok" -> PriceResult(Num(resp.usd), "")
          [] resp.kind = "malformed" -> PriceResult(NoPrice, "Malformed response")
          [] OTHER ->
                IF n = max_retries THEN PriceResult(NoPrice, "exception")
                ELSE attempt(n + 1, resps)

\* get_current_price when the n-th request is answered by resps[n]
get_current_price(resps) == attempt(1, resps)

(* -------------------------------- enrich ------------------------------ *)
NaNLabel == << "NaN" >>

\* Series.astype(str) on one Coin Type cell
astype_str(c) == IF c = NaNLabel THEN << "n", "a", "n" >> ELSE c

coin_key(c) == lower(strip(astype_str(c)))

\* COIN_NAME_TO_ID.get(key): "" stands for None
coin_id_of(key) ==
    IF \E i \in DOMAIN COIN_NAME_TO_ID : COIN_NAME_TO_ID[i].name = key
    THEN COIN_NAME_TO_ID[CHOOSE i \in DOMAIN COIN_NAME_TO_ID :
                             COIN_NAME_TO_ID[i].name = key].id
    ELSE ""

\* (Quantity * Cost per Coin (USD) + fees).round(2), in cents
cost_basis(r) ==
    LET fees == fillna0(to_numeric(r.fees))
    IN  IF IsNum(r.qty) /\ IsNum(r.cost)
        THEN Num(RoundDiv(r.qty.v * r.cost.v + fees.v * 1000, 1000))
        ELSE NaN

\* lines 214-225: the columns enrich adds before the loop
enrich_init(r) ==
    [coin |-> r.coin, qty |-> r.qty, cost |-> r.cost, fees |-> r.fees,
     key |-> coin_key(r.coin), price |-> NA, position |-> NA,
     basis |-> cost_basis(r), pl_usd |-> NA, pl_pct |-> NA]

\* out.drop(columns=["Coin Key"]) on one record
drop_key(r) ==
    [coin |-> r.coin, qty |-> r.qty, cost |-> r.cost, fees |-> r.fees,
     price |-> r.price, position |-> r.position,
     basis |-> r.basis, pl_usd |-> r.pl_usd, pl_pct |-> r.pl_pct]

\* the offline argument ignored
returns_early_never(off) == FALSE

\* line 227: the offline early return
returns_early(off) == off

\* the result of a live lookup never stored
cache_store_never(cache, id, pr) == cache

\* lines 246-247: what the cache holds after a live lookup
cache_store(cache, id, pr) ==
    IF pr.usd # NoPrice
    THEN [x \in DOMAIN cache \cup {id} |-> IF x = id THEN pr ELSE cache[x]]
    ELSE cache

\* the zero test left out
cost_basis_unusable_isna(cb) == IsNull(cb)

\* line 261: pd.isna(cb) or cb == 0
cost_basis_unusable(cb) == IsNull(cb) \/ cb.v = 0

\* the loop ended instead of continued
break_after(i, n) == n + 1

\* the end of an iteration (`continue`, or the end of the loop body): the
\* loop goes on with the record after i
continue_after(i, n) == i + 1

\* round(n / d, 2 places) for either sign of d
RoundQuot(n, d) == IF d > 0 THEN RoundDiv(n, d) ELSE RoundDiv(-n, -d)

\* time.sleep(1.0) after every live lookup, failed ones too
lookup_events_always_sleep(i, coin_id, pr) ==
    << [op |-> "lookup", row |-> i, id |-> coin_id, usd |-> pr.usd],
       [op |-> "sleep", row |-> i, id |-> coin_id, usd |-> pr.usd] >>

\* lines 244-248: the live lookup for record i, and the pacing delay
\* time.sleep(1.0) that follows it when it brought a price
lookup_events(i, coin_id, pr) ==
    << [op |-> "lookup", row |-> i, id |-> coin_id, usd |-> pr.usd] >> \o
    (IF pr.usd # NoPrice
     THEN << [op |-> "sleep", row |-> i, id |-> coin_id, usd |-> pr.usd] >>
     ELSE << >>)

\* lines 237-243: the record's identifier is known and not in the cache
needs_lookup(r, cache) ==
    coin_id_of(r.key) # "" /\ coin_id_of(r.key) \notin DOMAIN cache

\* one iteration of the loop at lines 235-273 on record r, the i-th, the
\* session answering a live lookup with resps.  Gives the record, the cache,
\* the lookups and pacing delays (time.sleep(1.0)) that happened, and the
\* divisors of the divisions evaluated.
enrich_row(i, r, cache, resps) ==
    LET coin_id == coin_id_of(r.key)
        cached == coin_id \in DOMAIN cache
        pr == IF cached THEN cache[coin_id] ELSE get_current_price(resps)
        ev == IF cached THEN << >> ELSE lookup_events(i, coin_id, pr)
        cache2 == IF cached THEN cache ELSE cache_store(cache, coin_id, pr)
        cb == to_numeric(r.basis)
        truthy == ~(IsNum(cb) /\ cb.v = 0)
        position_value ==
            IF IsNum(r.qty) THEN Num(RoundDiv(pr.usd.v * r.qty.v, 1000)) ELSE NaN
        pl_usd ==
            IF IsNum(position_value) /\ IsNum(cb)
            THEN Num(position_value.v - cb.v) ELSE NaN
        pl_pct ==
            IF ~truthy THEN NA
            ELSE IF IsNum(pl_usd) THEN Num(RoundQuot(pl_usd.v * 10000, cb.v))
            ELSE NaN
    IN  IF coin_id = ""
        THEN [row |-> r, cache |-> cache, ev |-> << >>, div |-> << >>]
        ELSE IF pr.usd = NoPrice
        THEN [row |-> r, cache |-> cache2, ev |-> ev, div |-> << >>]
        ELSE IF cost_basis_unusable(cb)
        THEN [row |-> [r EXCEPT !.pl_pct = NA], cache |-> cache2, ev |-> ev,
              div |-> << >>]
        ELSE [row |-> [r EXCEPT !.price = pr.usd,
                                !.position = position_value,
                                !.pl_usd = pl_usd,
                                !.pl_pct = pl_pct],
              cache |-> cache2, ev |-> ev,
              div |-> IF truthy THEN << cb >> ELSE << >>]

(* ------------------------------- summarize ---------------------------- *)
\* grouping on the Coin Key instead of the raw Coin Type
group_key_normalized(r) == coin_key(r.coin)

\* groupby("Coin Type"): the value a record is grouped under
group_key(r) == r.coin

\* groupby without dropna=False: records with a missing label are left out
group_labels_dropna(rows) == {group_key(rows[i]) : i \in DOMAIN rows} \ {NaNLabel}

\* groupby(..., dropna=False): the values that get a group
group_labels(rows) == {group_key(rows[i]) : i \in DOMAIN rows}

\* groupby sorts the group keys; a missing label comes last
KeyLess(a, b) ==
    IF a = NaNLabel THEN FALSE
    ELSE IF b = NaNLabel THEN TRUE
    ELSE StrLess(a, b)

group_order(S) ==
    [i \in 1..Cardinality(S) |->
        CHOOSE x \in S : Cardinality({y \in S : KeyLess(y, x)}) = i - 1]

\* Series.sum() of pd.to_numeric(column, errors="coerce"): not-a-number skipped
RECURSIVE col_sum(_, _)
col_sum(rows, f) ==
    IF rows = << >> THEN 0
    ELSE (LET x == to_numeric(Head(rows)[f])
          IN  IF IsNum(x) THEN x.v ELSE 0) + col_sum(Tail(rows), f)

RECURSIVE plain_sum(_, _)
plain_sum(rows, f) ==
    IF rows = << >> THEN 0 ELSE Head(rows)[f] + plain_sum(Tail(rows), f)

TOTAL == << "T", "O", "T", "A", "L" >>

by_coin(rows) ==
    LET keys == group_order(group_labels(rows))
        members(k) == SelectSeq(rows, LAMBDA r : group_key(r) = k)
    IN  [g \in DOMAIN keys |->
            [coin |-> keys[g],
             Quantity |-> col_sum(members(keys[g]), "qty"),
             Cost_Basis_USD |-> col_sum(members(keys[g]), "basis"),
             Position_Value_USD |-> col_sum(members(keys[g]), "position"),
             Unrealized_PL_USD |-> col_sum(members(keys[g]), "pl_usd")]]

summarize(rows) ==
    LET groups == by_coin(rows)
        overall == [coin |-> TOTAL,
                    Quantity |-> plain_sum(groups, "Quantity"),
                    Cost_Basis_USD |-> plain_sum(groups, "Cost_Basis_USD"),
                    Position_Value_USD |-> plain_sum(groups, "Position_Value_USD"),
                    Unrealized_PL_USD |-> plain_sum(groups, "Unrealized_PL_USD")]
    IN  groups \o << overall >>


(* ------------------------------ enrich run ---------------------------- *)
CoinLabels ==
    { << "B", "T", "C" >>,
      << " ", "b", "t", "c", " " >>,
      << "X", "R", "P" >>,
      << "L", "T", "C" >>,
      NaNLabel }

\* quantity (thousandths), cost per coin (cents), fee (cents)
Amounts ==
    { [qty |-> Num(2000), cost |-> Num(10000), fees |-> NaN],
      [qty |-> Num(1005), cost |-> Num(333), fees |-> Num(50)],
      [qty |-> Num(500), cost |-> Num(1), fees |-> Num(0)],
      [qty |-> NaN, cost |-> Num(100), fees |-> Num(0)] }

\* the records of a sheet with (fees = TRUE) or without a FeesUSD column
Records(fees) ==
    {[coin |-> c, qty |-> a.qty, cost |-> a.cost,
      fees |-> IF fees THEN a.fees ELSE NA] : c \in CoinLabels, a \in Amounts}

\* the sheets: at least one record, at most MaxRows
Dataframes(fees) == UNION {[1..n -> Records(fees)] : n \in 1..MaxRows}

NoTable == [cols |-> << >>, cells |-> << >>]

Unset == [ok |-> FALSE, err |-> << >>]

Init ==
    /\ hasFees \in BOOLEAN
    /\ offline \in BOOLEAN
    /\ df \in Dataframes(hasFees)
    /\ pc = "call"
    /\ idx = 0
    /\ out = << >>
    /\ price_cache = << >>
    /\ events = << >>
    /\ divisions = << >>
    /\ summary = << >>
    /\ tbl = NoTable /\ hist = << >> /\ hpc = "idle" /\ schema = Unset

\* enrich, lines 214-233: the derived columns, the offline return
EnrichBegin ==
    /\ pc = "call"
    /\ IF ~hasFees
       THEN \* out["FeesUSD"] raises KeyError
            /\ pc' = "raised"
            /\ UNCHANGED << out, idx >>
       ELSE IF returns_early(offline)
       THEN /\ out' = [i \in DOMAIN df |-> drop_key(enrich_init(df[i]))]
            /\ pc' = "returned"
            /\ UNCHANGED idx
       ELSE /\ out' = [i \in DOMAIN df |-> enrich_init(df[i])]
            /\ pc' = "loop"
            /\ idx' = 1
    /\ UNCHANGED << tbl, hist, hpc, schema, df, hasFees, offline,
                    price_cache, events, divisions, summary >>

\* enrich, lines 235-273: one iteration of the loop
EnrichRow ==
    /\ pc = "loop"
    /\ idx <= Len(out)
    /\ \E resps \in (IF needs_lookup(out[idx], price_cache)
                     THEN Exchanges ELSE {<< >>}) :
         LET s == enrich_row(idx, out[idx], price_cache, resps)
         IN  /\ out' = [out EXCEPT ![idx] = s.row]
             /\ price_cache' = s.cache
             /\ events' = events \o s.ev
             /\ divisions' = divisions \o s.div
    /\ idx' = continue_after(idx, Len(out))
    /\ UNCHANGED << tbl, hist, hpc, schema, df, hasFees, offline, pc, summary >>

\* enrich, line 275: the loop is over
EnrichReturn ==
    /\ pc = "loop"
    /\ idx > Len(out)
    /\ out' = [i \in DOMAIN out |-> drop_key(out[i])]
    /\ pc' = "returned"
    /\ UNCHANGED << tbl, hist, hpc, schema, df, hasFees, offline, idx,
                    price_cache, events, divisions, summary >>

\* main, line 386: summary = summarize(enriched.copy())
Summarize ==
    /\ pc = "returned"
    /\ summary' = summarize(out)
    /\ pc' = "summarized"
    /\ UNCHANGED << tbl, hist, hpc, schema, df, hasFees, offline, idx, out,
                    price_cache, events, divisions >>

Next == EnrichBegin \/ EnrichRow \/ EnrichReturn \/ Summarize

Spec == Init /\ [][Next]_vars

(* ----------------------------- headers run ---------------------------- *)
MaxCalls == 2

HeadersInit ==
    /\ tbl \in RawTables
    /\ hist = << >>
    /\ hpc = "ready"
    /\ schema = Unset
    /\ df = << >> /\ hasFees = FALSE /\ offline = FALSE /\ pc = "idle"
    /\ idx = 0 /\ out = << >> /\ price_cache = << >> /\ events = << >>
    /\ divisions = << >> /\ summary = << >>

\* main, line 377, and again on its own result
NormalizeHeaders ==
    /\ hpc = "ready"
    /\ Len(hist) < MaxCalls
    /\ \E rm \in RenameMaps(Range(step1_norm(tbl).cols)) :
         LET r == normalize_headers(tbl, rm)
         IN  /\ tbl' = r.tbl
             /\ hpc' = IF r.raised THEN "raised" ELSE "ready"
    /\ hist' = Append(hist, tbl)
    /\ schema' = Unset
    /\ UNCHANGED << df, hasFees, offline, pc, idx, out, price_cache, events,
                    divisions, summary >>

\* main, line 380
ValidateSchema ==
    /\ hpc = "ready"
    /\ schema = Unset
    /\ schema' = validate_schema(tbl)
    /\ UNCHANGED << tbl, hist, hpc, df, hasFees, offline, pc, idx, out,
                    price_cache, events, divisions, summary >>

HeadersNext == NormalizeHeaders \/ ValidateSchema

SpecHeaders == HeadersInit /\ [][HeadersNext]_vars

(* ======================= properties of the enrich run ================= *)
Returned == pc \in {"returned", "summarized"}

\* the records the loop has dealt with
Visited ==
    IF pc = "loop" THEN {k \in DOMAIN out : k < idx}
    ELSE IF Returned /\ ~offline THEN DOMAIN out
    ELSE {}

IdOf(r) == coin_id_of(coin_key(r.coin))

Lookups(id) == {i \in DOMAIN events : events[i].op = "lookup" /\ events[i].id = id}

\* C1 (as stated): within one online run every identifier is looked up live
\* at most once, whether that lookup succeeded or failed.
C1_AtMostOneLookupPerId ==
    \A i, j \in DOMAIN events :
        (events[i].op = "lookup" /\ events[j].op = "lookup" /\ i # j)
            => events[i].id # events[j].id

\* C1 (amended): every identifier has at most one successful live lookup and
\* no lookup after it; every priced record carries the price of that lookup;
\* a failed lookup is not kept, so until one succeeds every record of the
\* identifier is looked up again.
C1_OneSuccessfulLookupPerId ==
    LET id == [k \in DOMAIN out |-> IdOf(out[k])]
    IN  \A x \in ({id[k] : k \in DOMAIN out} \cup
                  {events[i].id : i \in DOMAIN events}) \ {""} :
            LET recs == {k \in Visited : id[k] = x}
                looks == Lookups(x)
                wins == {i \in looks : events[i].usd # NoPrice}
            IN  /\ Cardinality(wins) <= 1
                /\ \A i \in wins : \A j \in looks : j <= i
                /\ \A k \in recs : IsNum(out[k].price) =>
                       \E i \in wins :
                           events[i].row <= k /\ events[i].usd = out[k].price
                /\ IF wins = {}
                   THEN Cardinality(looks) = Cardinality(recs)
                   ELSE Cardinality(looks) <= Cardinality(recs)

\* two records of one identifier, one live lookup, its price in both
C1_Witness ==
    /\ Returned /\ ~offline /\ Len(out) = 2
    /\ \E id \in {IdOf(out[1])} \ {""} :
          /\ IdOf(out[2]) = id
          /\ out[1].coin # out[2].coin
          /\ Cardinality(Lookups(id)) = 1
          /\ IsNum(out[1].price) /\ out[2].price = out[1].price

\* round(Quantity * Cost per Coin (USD) + fees, 2) in cents, fees taken as 0
\* when the sheet has no fees column or the cell is not a number
ExpectedBasis(r) ==
    LET f == IF hasFees /\ IsNum(r.fees) THEN r.fees.v ELSE 0
    IN  IF IsNum(r.qty) /\ IsNum(r.cost)
        THEN Num(RoundDiv(r.qty.v * r.cost.v + 1000 * f, 1000))
        ELSE NaN

\* C3: for every sheet that passes validate_schema, with or without a fees
\* column, offline or online, enrich completes and every record's cost basis
\* is round(quantity * cost + fees, 2), fees being 0 when absent or not a number.
C3_CostBasisAlwaysComputed ==
    /\ pc # "raised"
    /\ pc \in {"loop", "returned", "summarized"} =>
          /\ Len(out) = Len(df)
          /\ \A k \in DOMAIN out : out[k].basis = ExpectedBasis(df[k])

PriceFieldsNull(r) ==
    IsNull(r.price) /\ IsNull(r.position) /\ IsNull(r.pl_usd) /\ IsNull(r.pl_pct)

NullAsZero(x) == IF IsNum(x) THEN x.v ELSE 0

RECURSIVE SumOver(_, _)
SumOver(S, val) ==
    IF S = {} THEN 0
    ELSE LET x == CHOOSE x \in S : TRUE IN val[x] + SumOver(S \ {x}, val)

SummaryFields ==
    << [sum |-> "Quantity", of |-> "qty"],
       [sum |-> "Cost_Basis_USD", of |-> "basis"],
       [sum |-> "Position_Value_USD", of |-> "position"],
       [sum |-> "Unrealized_PL_USD", of |-> "pl_usd"] >>

GroupRows == 1..(Len(summary) - 1)

\* C5: the TOTAL row holds, for quantity, cost basis, position value and
\* unrealized P/L, the sum over the group rows, which is the sum over all
\* enriched records with null / not-a-number counted as zero.
C5_TotalIsSumOfGroupsAndRecords ==
    pc = "summarized" =>
        \A i \in DOMAIN SummaryFields :
            LET f == SummaryFields[i]
                total == summary[Len(summary)][f.sum]
            IN  /\ total = SumOver(GroupRows, [g \in GroupRows |-> summary[g][f.sum]])
                /\ total = SumOver(DOMAIN out,
                                   [k \in DOMAIN out |-> NullAsZero(out[k][f.of])])

\* two groups, one of them the missing label, a priced record and a record
\* whose quantity is not a number
C5_Witness ==
    /\ pc = "summarized" /\ Len(summary) = 3
    /\ \E k \in DOMAIN out : out[k].coin = NaNLabel /\ IsNum(out[k].qty)
    /\ \E k \in DOMAIN out : IsNum(out[k].position) /\ out[k].position.v > 0
    /\ summary[3].Position_Value_USD > 0

\* the distinct raw Coin Type values in the order of their first record
RECURSIVE FirstSeen(_)
FirstSeen(rows) ==
    IF rows = << >> THEN << >>
    ELSE LET init == FirstSeen(SubSeq(rows, 1, Len(rows) - 1))
             c == rows[Len(rows)].coin
         IN  IF c \in Range(init) THEN init ELSE Append(init, c)

GroupCoins == [g \in GroupRows |-> summary[g].coin]

\* C6 (as stated): one row per distinct raw Coin Type value, in the order in
\* which the values first appear in the records, then one TOTAL row, last.
\* Stated for the sheets whose Coin Type cells all hold text.
C6_GroupsInFirstSeenOrder ==
    (pc = "summarized" /\ \A k \in DOMAIN out : out[k].coin # NaNLabel) =>
        /\ GroupCoins = FirstSeen(out)
        /\ summary[Len(summary)].coin = TOTAL

\* C6 (amended): one row per distinct raw Coin Type value (raw text, never
\* merged by spelling or case), in ascending order of the value (code-point
\* order, a missing value last), then one TOTAL row, last.
C6_GroupsInSortedOrder ==
    pc = "summarized" =>
        /\ Range(GroupCoins) = {out[k].coin : k \in DOMAIN out}
        /\ Len(summary) = Cardinality({out[k].coin : k \in DOMAIN out}) + 1
        /\ \A g, h \in GroupRows : g < h => KeyLess(GroupCoins[g], GroupCoins[h])
        /\ summary[Len(summary)].coin = TOTAL

\* two spellings of one asset, the later-sorted one first in the sheet
C6_Witness ==
    /\ pc = "summarized" /\ Len(out) = 2
    /\ IdOf(out[1]) = IdOf(out[2]) /\ IdOf(out[1]) # ""
    /\ KeyLess(out[2].coin, out[1].coin)
    /\ Len(summary) = 3 /\ summary[1].coin = out[2].coin

(* ================= properties of the online enrich loop =============== *)
BasisUnusable(r) == ~IsNum(r.basis) \/ r.basis.v = 0

\* C9: online, a record whose cost basis is null, zero or not a number keeps
\* its four price-derived fields null even when its asset's lookup succeeded,
\* and no division by a zero or undefined cost basis is evaluated.
C9_NoDivisionByUnusableBasis ==
    ~offline =>
        /\ \A k \in DOMAIN out : BasisUnusable(out[k]) => PriceFieldsNull(out[k])
        /\ \A i \in DOMAIN divisions : IsNum(divisions[i]) /\ divisions[i].v # 0

\* a visited record with cost basis 0 whose asset has a price in the cache
C9_Witness ==
    /\ ~offline /\ pc = "loop"
    /\ \E k \in Visited :
          /\ IsNum(out[k].basis) /\ out[k].basis.v = 0
          /\ IdOf(out[k]) \in DOMAIN price_cache
    /\ \E k \in Visited : ~IsNum(out[k].basis) /\ IdOf(out[k]) \in DOMAIN price_cache

\* the price a record at row k with identifier id was given: that of a
\* successful lookup made at or before it, if there is one
PriceAt(k, id) ==
    LET hits == {i \in DOMAIN events :
                    /\ events[i].op = "lookup" /\ events[i].id = id
                    /\ events[i].usd # NoPrice /\ events[i].row <= k}
    IN  IF hits = {} THEN NoPrice ELSE events[CHOOSE i \in hits : TRUE].usd

\* record k has one of the per-record issues: an unknown coin, no price
\* after all retries, a zero or undefined cost basis
Affected(k) ==
    LET id == IdOf(out[k])
    IN  id = "" \/ PriceAt(k, id) = NoPrice \/ BasisUnusable(out[k])

\* C10: online, a per-record issue never aborts enrich: every record is
\* visited (a record with a known identifier and no cached price is looked
\* up), one record is returned per input record, an affected record has its
\* price-derived fields null, and every other record has price, position
\* value, unrealized P/L and P/L percent filled in.
C10_IssuesAreIsolated ==
    (~offline /\ hasFees) =>
        /\ pc # "raised"
        /\ Returned => Len(out) = Len(df) /\ Visited = DOMAIN df
        /\ \A k \in Visited :
              LET r == out[k]
                  id == IdOf(r)
                  price == PriceAt(k, id)
                  affected == id = "" \/ price = NoPrice \/ BasisUnusable(r)
              IN  /\ r.coin = df[k].coin
                  /\ (id # "" /\ price = NoPrice) =>
                         \E i \in DOMAIN events :
                             /\ events[i].op = "lookup" /\ events[i].id = id
                             /\ events[i].row = k
                  /\ affected => PriceFieldsNull(r)
                  /\ ~affected =>
                        /\ r.price = price
                        /\ r.position = Num(RoundDiv(price.v * r.qty.v, 1000))
                        /\ r.pl_usd = Num(r.position.v - r.basis.v)
                        /\ IsNum(r.pl_pct)
                        /\ 2 * r.basis.v * r.pl_pct.v
                               <= 2 * 10000 * r.pl_usd.v + r.basis.v
                        /\ 2 * r.basis.v * r.pl_pct.v
                               >= 2 * 10000 * r.pl_usd.v - r.basis.v

\* a returned sheet whose first record has an issue and whose second is priced
C10_Witness ==
    /\ ~offline /\ pc = "returned" /\ Len(out) = 2
    /\ Affected(1) /\ IdOf(out[1]) # "" /\ PriceAt(1, IdOf(out[1])) = NoPrice
    /\ ~Affected(2) /\ IsNum(out[2].pl_pct)

(* ==================== properties of the headers run =================== *)
\* sub occurs in text
Contains(text, sub) ==
    \E i \in 0..(Len(text) - Len(sub)) : SubSeq(text, i + 1, i + Len(sub)) = sub

AbsentRequired ==
    {c \in Range(REQUIRED_COLS_DISPLAY) : \A j \in DOMAIN tbl.cols : tbl.cols[j] # c}

\* C2: validate_schema returns (True, None) iff all four required columns
\* are columns of the table; otherwise (False, message) with a message that
\* names every absent required column; the result is that of the same
\* columns with other cells.
C2_ValidateSchemaIffAllPresent ==
    schema # Unset =>
        /\ schema.ok <=> AbsentRequired = {}
        /\ schema.ok => schema.err = None
        /\ ~schema.ok =>
              /\ schema.err # None
              /\ \A c \in AbsentRequired : Contains(schema.err, c)
        /\ \A v \in Range(CellVals) \cup {NaN} :
              schema = validate_schema([tbl EXCEPT !.cells =
                                              [j \in DOMAIN tbl.cells |-> v]])

\* a failure on a table that has one required column and lacks two or more
C2_Witness ==
    /\ schema # Unset /\ ~schema.ok
    /\ Cardinality(AbsentRequired) \in {2, 3}
    /\ tbl.cols # << >>

DisplayNames == {display_names[i].display : i \in DOMAIN display_names}

\* the normalized label equals no canonical field name and no alias
Unmatched(label) ==
    LET n == norm(label)
    IN  \A i \in DOMAIN alias : n # alias[i].canon /\ n \notin alias[i].alts

\* the table the last call of normalize_headers was given
LastInput == hist[Len(hist)]

\* C7 (as stated): normalize_headers drops every label that matches no
\* canonical field and no alias: given such a label, what it returns has
\* canonical columns only.
C7_UnmatchedLabelsDropped ==
    (hist # << >> /\ hpc = "ready") =>
        ((\E c \in Range(LastInput.cols) : Unmatched(c)) =>
            Range(tbl.cols) \subseteq DisplayNames)

\* C7 (amended): normalize_headers keeps every label that matches no
\* canonical field and no alias, under its normalized form, next to the nine
\* canonical columns, and such a label never makes it raise: it raises only
\* when two raw labels normalize to the same label.
C7_UnmatchedLabelsKept ==
    hist # << >> =>
        /\ hpc = "ready" =>
              /\ DisplayNames \subseteq Range(tbl.cols)
              /\ \A c \in Range(LastInput.cols) :
                     Unmatched(c) => norm(c) \in Range(tbl.cols)
              /\ Range(tbl.cols) \subseteq
                     DisplayNames \cup {norm(c) : c \in Range(LastInput.cols)}
              /\ Len(tbl.cells) = Len(tbl.cols)
        /\ hpc = "raised" =>
              \E i, j \in DOMAIN LastInput.cols :
                  /\ i # j
                  /\ norm(LastInput.cols[i]) = norm(LastInput.cols[j])
                  /\ ~Unmatched(LastInput.cols[i])

\* a returned table that came from raw labels with an unmatched one
C7_Witness ==
    /\ Len(hist) = 1 /\ hpc = "ready"
    /\ \E c \in Range(hist[1].cols) :
          /\ Unmatched(c) /\ norm(c) # c
          /\ norm(c) \in Range(tbl.cols)
    /\ \E c \in Range(hist[1].cols) : ~Unmatched(c)

\* C8: normalize_headers applied to its own result returns it unchanged:
\* same column names, same order, same cells.
C8_NormalizeIdempotent ==
    Len(hist) >= 2 => hpc = "ready" /\ tbl = LastInput

\* a second call on the result of a first call that renamed an alias,
\* coerced a cell and kept an unmatched label
C8_Witness ==
    /\ Len(hist) = 2 /\ hpc = "ready"
    /\ Range(hist[1].cols) \cap DisplayNames = {}
    /\ Len(hist[1].cols) >= 3
    /\ \E c \in Range(hist[1].cols) : Unmatched(c)
    /\ \E j \in DOMAIN hist[1].cols : hist[2].cells[j] # hist[1].cells[j]

(* ============== properties of the lookups and pacing delays =========== *)
IsLookup(i) == events[i].op = "lookup"

IsDelay(i) == events[i].op = "sleep"

\* C11 (as stated): online, the live lookups happen one at a time, in the
\* order of the records, and every live lookup, the first one of the run and
\* one that follows a failed lookup included, is preceded by the pacing delay.
C11_DelayBeforeEveryLookup ==
    ~offline =>
        /\ \A i, j \in DOMAIN events :
              (IsLookup(i) /\ IsLookup(j) /\ i < j) => events[i].row < events[j].row
        /\ \A i \in DOMAIN events : IsLookup(i) => (i > 1 /\ IsDelay(i - 1))

\* C11 (amended): online, the live lookups happen one at a time, in the
\* order of the records (at most one per record, for that record's
\* identifier), and every successful live lookup is directly followed by one
\* pacing delay; a failed lookup is followed by none, so a lookup is preceded
\* by the delay exactly when the lookup before it succeeded.
C11_DelayAfterSuccessfulLookup ==
    ~offline =>
        /\ \A i, j \in DOMAIN events :
              (IsLookup(i) /\ IsLookup(j) /\ i < j) => events[i].row < events[j].row
        /\ \A i \in DOMAIN events :
              /\ IsLookup(i) =>
                    /\ events[i].row \in Visited
                    /\ events[i].id = IdOf(out[events[i].row])
                    /\ events[i].usd # NoPrice =>
                           (i < Len(events) /\ IsDelay(i + 1))
                    /\ events[i].usd = NoPrice =>
                           (i = Len(events) \/ IsLookup(i + 1))
                    /\ (i > 1 /\ IsDelay(i - 1)) <=>
                           (i > 2 /\ IsLookup(i - 2) /\ events[i - 2].usd # NoPrice)
              /\ IsDelay(i) =>
                    /\ i > 1 /\ IsLookup(i - 1)
                    /\ events[i - 1].usd # NoPrice
                    /\ events[i - 1].row = events[i].row

\* a failed lookup, then directly a successful one, then the delay
C11_Witness ==
    /\ ~offline /\ Len(events) = 3
    /\ IsLookup(1) /\ events[1].usd = NoPrice
    /\ IsLookup(2) /\ events[2].usd # NoPrice
    /\ IsDelay(3)

====
